---- MODULE Spec2Model ----
(***************************************************************************)
(* Disaster Risk Dashboard: the client-side event pipeline.                *)
(*                                                                         *)
(*   lib/api.ts          fetchEvents                                       *)
(*   app/page.tsx        Home: polling effect (load / setInterval),        *)
(*                       merge + sort, hazard filter                       *)
(*   EventsMap.tsx       validEvents, heatPoints, view mode                *)
(*   HeatLayer.tsx       the points handed to L.heatLayer                  *)
(*   MagnitudeSlider.tsx the dual-thumb magnitude range                    *)
(*                                                                         *)
(* JavaScript values that may be a number, null, NaN or an infinity are    *)
(* tagged records [tag, val]; magnitudes are kept in tenths.               *)
(***************************************************************************)
EXTENDS Integers, Sequences, FiniteSets, TLC

VARIABLES
    events,      \* Home: useState<EventItem[]>([])
    loading,     \* Home: useState(true)
    error,       \* Home: useState<string | null>(null)
    hazard,      \* Home: useState<HazardFilter>("all")
    cancelled,   \* the polling effect's closure flag
    timer,       \* the setInterval handle: "unset", "active" or "cleared"
    now,         \* milliseconds since the effect ran
    cycles,      \* the invocations of load(), in start order
    completed,   \* the cycles whose awaited Promise.all has settled, in that order
    backend,     \* what the upstream feed may answer, per hazard
    view,        \* EventsMap: useState<ViewMode>("events")
    minVal,      \* MagnitudeSlider: useState(value[0]), in tenths
    maxVal,      \* MagnitudeSlider: useState(value[1]), in tenths
    value,       \* MagnitudeSlider: the value prop, in tenths
    reported     \* MagnitudeSlider: the pair last handed to onChange

vars == <<events, loading, error, hazard, cancelled, timer, now, cycles,
          completed, backend, view, minVal, maxVal, value, reported>>

\* ------------------------------------------------------------------ bounds
MaxEqLen == 2
MaxFlLen == 2
MaxCycles == 2
SliderMin == 59
SliderMax == 63

\* -------------------------------------------------------- program constants
INTERVAL_MS == 60000
SliderStep == 1

Hazards == {"earthquake", "flood"}

\* ------------------------------------------------------- JavaScript values
Num(n) == [tag |-> "number", val |-> n]
NullV == [tag |-> "null", val |-> 0]
NaNV == [tag |-> "NaN", val |-> 0]
InfV == [tag |-> "Infinity", val |-> 0]

\* typeof v === "number"
TypeofNumber(v) == v.tag \in {"number", "NaN", "Infinity"}
\* Number.isNaN(v)
NumberIsNaN(v) == v.tag = "NaN"
\* Number.isFinite(v)
IsFiniteNumber(v) == v.tag = "number"
\* v ?? d
Coalesce(v, d) == IF v.tag = "null" THEN d ELSE v
\* x - y on numbers that may be NaN
JsSub(x, y) == IF x.tag = "NaN" \/ y.tag = "NaN" THEN NaNV ELSE Num(x.val - y.val)

\* ------------------------------------------------------------------ events
NullTime == "null"
EmptyTime == ""
BadTime == "not-a-date"
TimeEarly == "1970-01-01T00:00:01.000Z"
TimeLate == "1970-01-01T00:00:02.000Z"

\* Date.parse: milliseconds since the epoch, NaN for what is no date
DateParse(s) ==
    CASE s = TimeEarly -> Num(1000)
      [] s = TimeLate -> Num(2000)
      [] OTHER -> NaNV

\* the truthiness test of `a.time_utc ? ... : 0`
Truthy(s) == s # NullTime /\ s # EmptyTime

MkEvent(src, id, type, time, score, mag, lat, lon) ==
    [source |-> src, source_event_id |-> id, event_type |-> type,
     time_utc |-> time, severity_score |-> score, magnitude |-> mag,
     lat |-> lat, lon |-> lon]

\* ------------------------------------------------------- merge and ranking
\* the comparator handed to merged.sort
Comparator(a, b) ==
    LET as == Coalesce(a.severity_score, Num(0))
        bs == Coalesce(b.severity_score, Num(0))
        at == IF Truthy(a.time_utc) THEN DateParse(a.time_utc) ELSE Num(0)
        bt == IF Truthy(b.time_utc) THEN DateParse(b.time_utc) ELSE Num(0)
    IN  IF bs # as THEN JsSub(bs, as) ELSE JsSub(bt, at)

\* Array.prototype.sort reads the comparator's result through ToNumber and
\* takes NaN as +0
SortCompare(a, b) ==
    LET v == Comparator(a, b) IN IF v.tag = "NaN" THEN 0 ELSE v.val

\* ECMAScript's "consistent comparison function" for the values of s
ConsistentComparator(s) ==
    LET S == {s[i] : i \in 1..Len(s)}
        eq(a, b) == SortCompare(a, b) = 0
        lt(a, b) == SortCompare(a, b) < 0
        gt(a, b) == SortCompare(a, b) > 0
    IN  \A a \in S :
          /\ eq(a, a)
          /\ \A b \in S :
               /\ eq(a, b) => eq(b, a)
               /\ \A c \in S :
                    /\ (eq(a, b) /\ eq(b, c)) => eq(a, c)
                    /\ (lt(a, b) /\ lt(b, c)) => lt(a, c)
                    /\ (gt(a, b) /\ gt(b, c)) => gt(a, c)

\* insert x behind every element that does not sort after it
RECURSIVE InsertStable(_, _)
InsertStable(sorted, x) ==
    IF sorted = <<>> THEN <<x>>
    ELSE IF SortCompare(sorted[Len(sorted)], x) > 0
         THEN Append(InsertStable(SubSeq(sorted, 1, Len(sorted) - 1), x),
                     sorted[Len(sorted)])
         ELSE Append(sorted, x)

\* the stable sort ECMAScript requires for a consistent comparator
RECURSIVE StableSort(_)
StableSort(s) ==
    IF s = <<>> THEN <<>>
    ELSE InsertStable(StableSort(SubSeq(s, 1, Len(s) - 1)), s[Len(s)])

IndexPermutations(n) == {p \in [1..n -> 1..n] : \A i, j \in 1..n : p[i] = p[j] => i = j}

\* merged.sort(cmp): the stable sort when the comparator is consistent; an
\* implementation-defined order of the same elements when it is not
SortOutcomes(s) ==
    IF ConsistentComparator(s) THEN {StableSort(s)}
    ELSE {[i \in 1..Len(s) |-> s[p[i]]] : p \in IndexPermutations(Len(s))}

\* [...(eq.events ?? []), ...(fl.events ?? [])]
Concat(eqEvents, flEvents) == eqEvents \o flEvents

\* ------------------------------------------------------------- fetchEvents
Str(s) == [tag |-> "string", val |-> s]
NullS == [tag |-> "null", val |-> ""]

HttpResponse(status, readable, text, hasEvents, evs) ==
    [kind |-> "http", status |-> status, readable |-> readable, text |-> text,
     hasEvents |-> hasEvents, events |-> evs]
NetworkFailure(message) ==
    [kind |-> "network", status |-> 0, readable |-> FALSE, text |-> message,
     hasEvents |-> FALSE, events |-> <<>>]

NoResponse ==
    [kind |-> "none", status |-> 0, readable |-> FALSE, text |-> "",
     hasEvents |-> FALSE, events |-> <<>>]

\* resp.ok
RespOk(resp) == resp.status >= 200 /\ resp.status <= 299

\* await resp.text().catch(() => "")
BodyText(resp) == IF resp.readable THEN resp.text ELSE ""

\* a message that leaves the body text out
ErrorMessageStatusOnly(resp) == "API " \o ToString(resp.status)

\* `API ${resp.status}: ${txt || "Failed to fetch"}`
ErrorMessage(resp) ==
    LET txt == BodyText(resp)
    IN  "API " \o ToString(resp.status) \o ": " \o
        (IF txt # "" THEN txt ELSE "Failed to fetch")

Pending == [status |-> "pending", hasEvents |-> FALSE, events |-> <<>>, message |-> NullS]
Fulfilled(hasEvents, evs) ==
    [status |-> "fulfilled", hasEvents |-> hasEvents, events |-> evs, message |-> NullS]
Rejected(message) ==
    [status |-> "rejected", hasEvents |-> FALSE, events |-> <<>>, message |-> message]

\* the promise fetchEvents returns, once the response (or the network error) is in
FetchEvents(resp) ==
    IF resp.kind = "network" THEN Rejected(Str(resp.text))
    ELSE IF ~RespOk(resp) THEN Rejected(Str(ErrorMessage(resp)))
    ELSE Fulfilled(resp.hasEvents, resp.events)

\* fetch(url, ...) calls one invocation of load() makes, per feed
FetchCalls == [h \in Hazards |-> 1]

\* Promise.allSettled in place of Promise.all: a rejected feed counts as an empty one
PromiseAllSettled(eqP, flP) ==
    IF eqP.status = "pending" \/ flP.status = "pending" THEN "pending" ELSE "fulfilled"

\* Promise.all([eq, fl]): rejected with the first rejection, fulfilled when both are
PromiseAll(eqP, flP) ==
    CASE eqP.status = "rejected" -> "rejected"
      [] flP.status = "rejected" -> "rejected"
      [] eqP.status = "fulfilled" /\ flP.status = "fulfilled" -> "fulfilled"
      [] OTHER -> "pending"

\* eq.events ?? []
EventsOrEmpty(p) == IF p.hasEvents THEN p.events ELSE <<>>

\* --------------------------------------------------------- Home: the poller
\* the guard left out
GuardIgnored == TRUE

\* if (!cancelled) ...
NotCancelled == ~cancelled

\* the new list appended to the shown one instead of replacing it
SetEventsAppend(cur, merged) == cur \o merged

\* setEvents(merged)
SetEvents(cur, merged) == merged

\* e?.message ?? "Failed to load events"
CatchMessage(message) == Coalesce(message, Str("Failed to load events"))

\* loading cleared on no path
LoadingNeverCleared(cur) == cur

\* finally { if (!cancelled) setLoading(false); }
LoadingAfterFinally(cur) == IF NotCancelled THEN FALSE ELSE cur

\* the synchronous head of load(): setLoading(true); setError(null); both
\* fetchEvents calls issued
NewCycle(t) ==
    [startedAt |-> t, shown |-> events, pc |-> "awaiting", outcome |-> "none",
     merged |-> <<>>, fetch |-> [h \in Hazards |-> Pending],
     response |-> [h \in Hazards |-> NoResponse], requests |-> FetchCalls]

LoadStart(t) ==
    /\ loading' = TRUE
    /\ error' = NullS
    /\ cycles' = Append(cycles, NewCycle(t))

\* the rest of load() after `await Promise.all` fulfilled
LoadResolved(c, fetch2, resp2) ==
    \E merged \in SortOutcomes(Concat(EventsOrEmpty(fetch2["earthquake"]),
                                      EventsOrEmpty(fetch2["flood"]))) :
        /\ events' = IF NotCancelled THEN SetEvents(events, merged) ELSE events
        /\ error' = error
        /\ loading' = LoadingAfterFinally(loading)
        /\ cycles' = [cycles EXCEPT ![c] =
               [@ EXCEPT !.fetch = fetch2, !.response = resp2, !.pc = "done",
                         !.merged = merged,
                         !.outcome = IF NotCancelled THEN "published" ELSE "discarded"]]
        /\ completed' = Append(completed, c)

\* the rest of load() after `await Promise.all` rejected
LoadRejected(c, fetch2, resp2, reason) ==
    /\ events' = events
    /\ error' = IF NotCancelled THEN CatchMessage(reason) ELSE error
    /\ loading' = LoadingAfterFinally(loading)
    /\ cycles' = [cycles EXCEPT ![c] =
           [@ EXCEPT !.fetch = fetch2, !.response = resp2, !.pc = "done",
                     !.outcome = IF NotCancelled THEN "failed" ELSE "discarded"]]
    /\ completed' = Append(completed, c)

\* the effect body: load(); const t = setInterval(load, 60_000)
Mount ==
    /\ timer = "unset"
    /\ LoadStart(now)
    /\ timer' = "active"
    /\ UNCHANGED <<events, hazard, cancelled, now, completed, backend, view, minVal, maxVal, value, reported>>

\* the interval fires: load()
Tick ==
    /\ timer = "active"
    /\ Len(cycles) < MaxCycles
    /\ now' = now + INTERVAL_MS
    /\ LoadStart(now')
    /\ UNCHANGED <<events, hazard, cancelled, timer, completed, backend, view, minVal, maxVal, value, reported>>

\* one fetchEvents promise of cycle c settles; when that settles the awaited
\* Promise.all, the continuation of load() runs in the same turn.  Once the
\* Promise.all has rejected nothing listens to the other promise any more.
FetchSettle(c, h) ==
    /\ cycles[c].pc = "awaiting"
    /\ cycles[c].fetch[h].status = "pending"
    /\ \E resp \in backend[h] :
         LET fetch2 == [cycles[c].fetch EXCEPT ![h] = FetchEvents(resp)]
             resp2 == [cycles[c].response EXCEPT ![h] = resp]
             all == PromiseAll(fetch2["earthquake"], fetch2["flood"])
         IN  IF all = "pending"
             THEN /\ cycles' = [cycles EXCEPT ![c].fetch = fetch2, ![c].response = resp2]
                  /\ UNCHANGED <<events, error, loading, completed>>
             ELSE IF all = "fulfilled"
             THEN LoadResolved(c, fetch2, resp2)
             ELSE LoadRejected(c, fetch2, resp2, fetch2[h].message)
    /\ UNCHANGED <<hazard, cancelled, timer, now, backend, view, minVal, maxVal, value, reported>>

\* the effect cleanup: cancelled = true; clearInterval(t)
Unmount ==
    /\ timer = "active"
    /\ cancelled' = TRUE
    /\ timer' = "cleared"
    /\ UNCHANGED <<events, loading, error, hazard, now, cycles, completed, backend,
                   view, minVal, maxVal, value, reported>>

\* the page takes input until it is unmounted
Mounted == timer # "cleared"

\* onClick={() => setHazard(h)}
SetHazard(h) ==
    /\ Mounted
    /\ hazard' = h
    /\ UNCHANGED <<events, loading, error, cancelled, timer, now, cycles, completed,
                   backend, view, minVal, maxVal, value, reported>>

\* a mode switch that throws the published list away
SetViewDiscarding(v) ==
    /\ Mounted
    /\ view' = v
    /\ events' = IF v = view THEN events ELSE <<>>
    /\ UNCHANGED <<loading, error, hazard, cancelled, timer, now, cycles,
                   completed, backend, minVal, maxVal, value, reported>>

\* onClick={() => setView(v)}
SetView(v) ==
    /\ Mounted
    /\ view' = v
    /\ UNCHANGED <<events, loading, error, hazard, cancelled, timer, now, cycles,
                   completed, backend, minVal, maxVal, value, reported>>

\* a filter that hands its matches back newest-last
RECURSIVE Reversed(_)
Reversed(q) == IF q = <<>> THEN <<>> ELSE Append(Reversed(Tail(q)), Head(q))
FilterReordering(evs, h) ==
    IF h = "all" THEN evs ELSE Reversed(SelectSeq(evs, LAMBDA e : e.event_type = h))

\* const filteredEvents = useMemo(...)
FilterByHazard(evs, h) ==
    IF h = "all" THEN evs ELSE SelectSeq(evs, LAMBDA e : e.event_type = h)

filteredEvents == FilterByHazard(events, hazard)

\* MagnitudeSlider as mounted with the value prop <<lo, hi>>: both states start
\* from it, and the onChange effect has run once
SliderMounted(lo, hi) ==
    /\ value = <<lo, hi>>
    /\ minVal = lo
    /\ maxVal = hi
    /\ reported = <<lo, hi>>

\* ------------------------------------------------------------ the poller run
EqA == MkEvent("usgs", "us1", "earthquake", TimeEarly, Num(5), Num(60), Num(10), Num(20))
EqB == MkEvent("usgs", "us2", "earthquake", TimeLate, Num(9), Num(61), Num(11), Num(21))
FlA == MkEvent("nws", "nws1", "flood", TimeLate, Num(7), NullV, Num(30), Num(40))

PollBackend ==
    [h \in Hazards |->
       IF h = "earthquake"
       THEN {HttpResponse(200, TRUE, "", TRUE, <<EqA>>),
             HttpResponse(200, TRUE, "", TRUE, <<EqA, EqB>>),
             HttpResponse(500, TRUE, "Internal Server Error", FALSE, <<>>),
             NetworkFailure("Failed to fetch")}
       ELSE {HttpResponse(200, TRUE, "", TRUE, <<FlA>>),
             HttpResponse(503, TRUE, "", FALSE, <<>>),
             HttpResponse(404, FALSE, "", FALSE, <<>>)}]

\* the state Home is constructed in, before its effect has run
InitHome ==
    /\ events = <<>>
    /\ loading = TRUE
    /\ error = NullS
    /\ hazard = "all"
    /\ cancelled = FALSE
    /\ timer = "unset"
    /\ now = 0
    /\ cycles = <<>>
    /\ completed = <<>>
    /\ view = "events"

Init ==
    /\ InitHome
    /\ backend = PollBackend
    /\ SliderMounted(SliderMin, SliderMax)

Next ==
    \/ Mount
    \/ Tick
    \/ \E c \in 1..Len(cycles), h \in Hazards : FetchSettle(c, h)
    \/ Unmount
    \/ \E v \in {"events", "heatmap"} : SetView(v)

Spec == Init /\ [][Next]_vars

\* ------------------------------------------------ EventsMap and HeatLayer
\* the coordinate test of validEvents, and again of HeatLayer
ValidCoordinate(v) == TypeofNumber(v) /\ ~NumberIsNaN(v)

\* a filter that looks at the latitude only
ValidEventsLatOnly(evs) == SelectSeq(evs, LAMBDA e : ValidCoordinate(e.lat))

\* const validEvents = useMemo(...)
ValidEventsOf(evs) ==
    SelectSeq(evs, LAMBDA e : ValidCoordinate(e.lat) /\ ValidCoordinate(e.lon))

validEvents == ValidEventsOf(filteredEvents)

\* const heatPoints = useMemo(...)
HeatPointsOf(valid) ==
    [i \in 1..Len(valid) |->
        [lat |-> valid[i].lat, lon |-> valid[i].lon,
         intensity |-> Coalesce(valid[i].severity_score, Num(1))]]

heatPoints == HeatPointsOf(validEvents)

\* HeatLayer: the tuples handed to L.heatLayer; no layer for no points
LayerTuples(points) ==
    LET kept == SelectSeq(points, LAMBDA q : ValidCoordinate(q.lat) /\ ValidCoordinate(q.lon))
    IN  [i \in 1..Len(kept) |->
            <<kept[i].lat, kept[i].lon, Coalesce(kept[i].intensity, Num(1))>>]

\* what the map draws in each mode
heatLayer == IF view = "heatmap" THEN LayerTuples(heatPoints) ELSE <<>>
markers == IF view = "events" THEN validEvents ELSE <<>>

\* --------------------------------------------------------- MagnitudeSlider
\* const clamp = (v) => Math.min(max, Math.max(min, v))
Min2(a, b) == IF a <= b THEN a ELSE b
Max2(a, b) == IF a >= b THEN a ELSE b
Clamp(v) == Min2(SliderMax, Max2(SliderMin, v))

\* useEffect(() => { onChange([minVal, maxVal]) }, [minVal, maxVal]): runs after
\* the render in which minVal or maxVal changed
OnChangeEffect(newMin, newMax) ==
    reported' = IF newMin # minVal \/ newMax # maxVal THEN <<newMin, newMax>>
                ELSE reported

\* a min thumb that may run into the max thumb
MinThumbNoGap(v) ==
    /\ minVal' = Clamp(v)
    /\ OnChangeEffect(minVal', maxVal)
    /\ UNCHANGED <<events, loading, error, hazard, cancelled, timer, now, cycles,
                   completed, backend, view, maxVal, value>>

\* the min thumb's onChange
MinThumbChange(v) ==
    /\ minVal' = Min2(Clamp(v), maxVal - SliderStep)
    /\ OnChangeEffect(minVal', maxVal)
    /\ UNCHANGED <<events, loading, error, hazard, cancelled, timer, now, cycles,
                   completed, backend, view, maxVal, value>>

\* the max thumb's onChange
MaxThumbChange(v) ==
    /\ maxVal' = Max2(Clamp(v), minVal + SliderStep)
    /\ OnChangeEffect(minVal, maxVal')
    /\ UNCHANGED <<events, loading, error, hazard, cancelled, timer, now, cycles,
                   completed, backend, view, minVal, value>>

\* ------------------------------------------- one load over bounded feeds
SeqsUpTo(S, n) == UNION {[1..k -> S] : k \in 0..n}

Ok200(evs) == HttpResponse(200, TRUE, "", TRUE, evs)

OneAnswer(eqEvents, flEvents) ==
    [h \in Hazards |-> IF h = "earthquake" THEN {Ok200(eqEvents)} ELSE {Ok200(flEvents)}]

EventId(prefix, i) == prefix \o ToString(i)

\* ranking: every score and time_utc shape the comparator tells apart
Scores == {NullV, Num(0), Num(5)}
Times == {NullTime, BadTime, TimeEarly, TimeLate}

EqRanked(keys) ==
    [i \in 1..Len(keys) |->
        MkEvent("usgs", EventId("us", i), "earthquake", keys[i][2], keys[i][1],
                Num(60), Num(10), Num(20))]
FlRanked(keys) ==
    [i \in 1..Len(keys) |->
        MkEvent("nws", EventId("nws", i), "flood", keys[i][2], keys[i][1],
                NullV, Num(30), Num(40))]

InitRank ==
    /\ InitHome
    /\ \E ek \in SeqsUpTo(Scores \X Times, MaxEqLen) :
       \E fk \in SeqsUpTo({Num(5)} \X Times, MaxFlLen) :
           backend = OneAnswer(EqRanked(ek), FlRanked(fk))
    /\ SliderMounted(SliderMin, SliderMax)

NextRank ==
    \/ Mount
    \/ \E c \in 1..Len(cycles), h \in Hazards : FetchSettle(c, h)

SpecRank == InitRank /\ [][NextRank]_vars

\* filtering: earthquakes of every magnitude shape among floods of two scores
Magnitudes == {NullV, Num(60), Num(61)}

EqMeasured(mags) ==
    [i \in 1..Len(mags) |->
        MkEvent("usgs", EventId("us", i), "earthquake", TimeEarly, Num(5),
                mags[i], Num(10), Num(20))]
FlScored(scores) ==
    [i \in 1..Len(scores) |->
        MkEvent("nws", EventId("nws", i), "flood", TimeEarly, scores[i],
                NullV, Num(30), Num(40))]

InitFilter ==
    /\ InitHome
    /\ \E ms \in SeqsUpTo(Magnitudes, MaxEqLen) :
       \E ss \in SeqsUpTo({NullV, Num(9)}, MaxFlLen) :
           backend = OneAnswer(EqMeasured(ms), FlScored(ss))
    /\ SliderMounted(SliderMin, SliderMax)

NextFilter ==
    \/ Mount
    \/ \E c \in 1..Len(cycles), h \in Hazards : FetchSettle(c, h)
    \/ \E h \in Hazards \cup {"all"} : SetHazard(h)
    \/ \E v \in SliderMin..SliderMax : MinThumbChange(v)
    \/ \E v \in SliderMin..SliderMax : MaxThumbChange(v)

SpecFilter == InitFilter /\ [][NextFilter]_vars

\* density: every coordinate shape
Coordinates == {NullV, NaNV, InfV, Num(10)}

EqLocated(coords) ==
    [i \in 1..Len(coords) |->
        MkEvent("usgs", EventId("us", i), "earthquake", TimeEarly, Num(5),
                Num(60), coords[i][1], coords[i][2])]
FlLocated(coords) ==
    [i \in 1..Len(coords) |->
        MkEvent("nws", EventId("nws", i), "flood", TimeEarly, NullV,
                NullV, coords[i][1], coords[i][2])]

InitHeat ==
    /\ InitHome
    /\ \E ec \in SeqsUpTo(Coordinates \X Coordinates, MaxEqLen) :
       \E fc \in SeqsUpTo({<<Num(30), Num(40)>>, <<NullV, NullV>>}, MaxFlLen) :
           backend = OneAnswer(EqLocated(ec), FlLocated(fc))
    /\ SliderMounted(SliderMin, SliderMax)

NextHeat ==
    \/ Mount
    \/ \E c \in 1..Len(cycles), h \in Hazards : FetchSettle(c, h)
    \/ \E v \in {"events", "heatmap"} : SetView(v)

SpecHeat == InitHeat /\ [][NextHeat]_vars

\* markers: one coordinate pair of every kind the filter tells apart, under
\* every hazard selection and both modes
CoordinatePairs ==
    {<<Num(10), Num(20)>>, <<NaNV, Num(20)>>, <<Num(10), NullV>>,
     <<InfV, Num(20)>>, <<NullV, NullV>>}

InitMarkers ==
    /\ InitHome
    /\ \E ec \in SeqsUpTo(CoordinatePairs, MaxEqLen) :
       \E fc \in SeqsUpTo({<<Num(30), Num(40)>>, <<NullV, NullV>>}, MaxFlLen) :
           backend = OneAnswer(EqLocated(ec), FlLocated(fc))
    /\ SliderMounted(SliderMin, SliderMax)

NextMarkers ==
    \/ Mount
    \/ \E c \in 1..Len(cycles), h \in Hazards : FetchSettle(c, h)
    \/ \E h \in Hazards \cup {"all"} : SetHazard(h)
    \/ \E v \in {"events", "heatmap"} : SetView(v)

SpecMarkers == InitMarkers /\ [][NextMarkers]_vars

\* --------------------------------------------------- list view and map keys
\* events.map((e) => <li key={...}>): one list item per filtered event
listItems == filteredEvents

\* key={`${e.source}-${e.source_event_id}`}, in the list and on both marker kinds
RenderKey(e) == e.source \o "-" \o e.source_event_id

listKeys == [i \in 1..Len(listItems) |-> RenderKey(listItems[i])]
markerKeys == [i \in 1..Len(markers) |-> RenderKey(markers[i])]

\* identities: sources and ids as the feeds deliver them, hyphens included
FloodIdentities == {<<"nws", "1">>, <<"uk", "1">>, <<"uk", "ea-1">>, <<"uk-ea", "1">>}
QuakeIdentities == {<<"usgs", "us-1">>, <<"usgs", "us-2">>}

Distinct(q) == \A i, j \in 1..Len(q) : q[i] = q[j] => i = j

EqIdentified(ids) ==
    [i \in 1..Len(ids) |->
        MkEvent(ids[i][1], ids[i][2], "earthquake", TimeEarly, Num(5),
                Num(60), Num(10), Num(20))]
FlIdentified(ids) ==
    [i \in 1..Len(ids) |->
        MkEvent(ids[i][1], ids[i][2], "flood", TimeEarly, Num(5),
                NullV, Num(30), Num(40))]

InitKeys ==
    /\ InitHome
    /\ \E ei \in SeqsUpTo(QuakeIdentities, MaxEqLen) :
       \E fi \in SeqsUpTo(FloodIdentities, MaxFlLen) :
           /\ Distinct(ei)
           /\ Distinct(fi)
           /\ backend = OneAnswer(EqIdentified(ei), FlIdentified(fi))
    /\ SliderMounted(SliderMin, SliderMax)

NextKeys ==
    \/ Mount
    \/ \E c \in 1..Len(cycles), h \in Hazards : FetchSettle(c, h)
    \/ \E h \in Hazards \cup {"all"} : SetHazard(h)
    \/ \E v \in {"events", "heatmap"} : SetView(v)

SpecKeys == InitKeys /\ [][NextKeys]_vars

\* the slider alone: every initial value inside the range, then thumb changes
InitSlider ==
    /\ InitHome
    /\ backend = OneAnswer(<<>>, <<>>)
    /\ \E lo, hi \in SliderMin..SliderMax :
          /\ lo + SliderStep <= hi
          /\ SliderMounted(lo, hi)

NextSlider ==
    \/ \E v \in SliderMin..SliderMax : MinThumbChange(v)
    \/ \E v \in SliderMin..SliderMax : MaxThumbChange(v)

SpecSlider == InitSlider /\ [][NextSlider]_vars

\* ------------------------------------------------------------------ claims
CycleIds == 1..Len(cycles)
BothFulfilled(c) == \A h \in Hazards : cycles[c].fetch[h].status = "fulfilled"
AnyRejected(c) == \E h \in Hazards : cycles[c].fetch[h].status = "rejected"

\* the step in which cycle c's awaited Promise.all settles
Completes(c) == cycles[c].pc = "awaiting" /\ cycles'[c].pc = "done"
RejectsIn(c) == Completes(c) /\ \E h \in Hazards : cycles'[c].fetch[h].status = "rejected"

IsPermutationOf(a, b) ==
    /\ Len(a) = Len(b)
    /\ \E p \in IndexPermutations(Len(a)) : \A i \in 1..Len(a) : a[i] = b[p[i]]

\* what both feeds of cycle c answered, earthquakes first
FeedResults(c) ==
    cycles[c].response["earthquake"].events \o cycles[c].response["flood"].events

\* C1: once the effect cleanup has run, no step changes the published events,
\* the error message or the loading flag, and no new cycle is started.
C1_StopFreezesState ==
    [][cancelled => /\ cancelled'
                    /\ events' = events
                    /\ error' = error
                    /\ loading' = loading
                    /\ Len(cycles') = Len(cycles)]_vars

\* a cycle in flight at the stop has since fulfilled with a list other than the
\* shown one, and one has since rejected
C1_Witness ==
    /\ cancelled
    /\ \E c \in CycleIds :
         /\ cycles[c].outcome = "discarded"
         /\ BothFulfilled(c)
         /\ cycles[c].merged # events
    /\ \E c \in CycleIds : cycles[c].outcome = "discarded" /\ AnyRejected(c)

\* the displayed list is the initial empty one or all of what both feeds of one
\* cycle answered
SingleCycleMerge ==
    \/ events = <<>>
    \/ \E c \in CycleIds : BothFulfilled(c) /\ IsPermutationOf(events, FeedResults(c))

\* C2 as stated: a cycle one of whose fetches rejects leaves the displayed list
\* what it was before the cycle and sets an error message, and the displayed
\* list is always empty or the full merge of one cycle.
C2_AsStated ==
    /\ []SingleCycleMerge
    /\ [][\A c \in CycleIds :
            RejectsIn(c) => events' = cycles[c].shown /\ error'.tag = "string"]_vars

\* C2 amended: the rejecting cycle itself leaves the displayed list unchanged;
\* it sets an error message when the poller has not been stopped and leaves the
\* error alone when it has; the displayed list is always empty or the full
\* merge of one cycle.
C2_FailedCyclePublishesNothing ==
    /\ []SingleCycleMerge
    /\ [][\A c \in CycleIds :
            RejectsIn(c) =>
              /\ events' = events
              /\ ~cancelled => error'.tag = "string" /\ error'.val # ""
              /\ cancelled => error' = error]_vars

\* the flood fetch of a cycle rejected after its earthquake fetch had
\* succeeded, while a list of an earlier cycle is on display
C2_Witness ==
    \E c \in CycleIds :
        /\ cycles[c].outcome = "failed"
        /\ cycles[c].fetch["earthquake"].status = "fulfilled"
        /\ cycles[c].fetch["flood"].status = "rejected"
        /\ events # <<>>
        /\ error.tag = "string"

\* the cycles that resolved successfully, in completion order
ResolvedInOrder == SelectSeq(completed, BothFulfilled)

\* C5: while the poller is not stopped, the published list is the result of the
\* cycle that resolved last by completion time, whatever the start order.
C5_LastWriterWins ==
    (~cancelled /\ ResolvedInOrder # <<>>) =>
        events = cycles[ResolvedInOrder[Len(ResolvedInOrder)]].merged

\* two overlapping cycles resolved in the reverse of their start order, with
\* different results
C5_Witness ==
    /\ ~cancelled
    /\ completed = <<2, 1>>
    /\ BothFulfilled(1) /\ BothFulfilled(2)
    /\ cycles[1].merged # cycles[2].merged
    /\ events = cycles[1].merged

\* C6: the first cycle starts with the effect; cycles start INTERVAL_MS apart,
\* counted from the previous start; while the timer is active the next tick
\* can start a cycle whatever the earlier cycles did; a cycle that completes
\* while the poller is not stopped leaves loading cleared.
C6_PollingSchedule ==
    /\ [](timer = "unset" <=> cycles = <<>>)
    /\ [](cycles # <<>> => cycles[1].startedAt = 0)
    /\ [](\A k \in 2..Len(cycles) :
            cycles[k].startedAt = cycles[k - 1].startedAt + INTERVAL_MS)
    /\ []((timer = "active" /\ Len(cycles) < MaxCycles) => ENABLED Tick)
    /\ [][\A c \in CycleIds : (Completes(c) /\ ~cancelled) => ~loading']_vars

\* a later cycle published after the first one had failed, and loading is cleared
C6_Witness ==
    /\ Len(cycles) >= 2
    /\ completed = <<1, 2>>
    /\ cycles[1].outcome = "failed"
    /\ cycles[2].outcome = "published"
    /\ ~loading

Contains(s, sub) ==
    \E i \in 1..(Len(s) - Len(sub) + 1) : SubSeq(s, i, i + Len(sub) - 1) = sub

\* C10: a non-2xx response rejects the fetch with a message holding the status
\* and the body text (the fallback text when the body is empty or unreadable),
\* and every cycle has issued each of its two requests exactly once.
C10_NonOkSurfaced ==
    \A c \in CycleIds : \A h \in Hazards :
        LET r == cycles[c].response[h]
            f == cycles[c].fetch[h]
        IN  /\ cycles[c].requests[h] = 1
            /\ (r.kind = "http" /\ r.status \notin 200..299) =>
                  /\ f.status = "rejected"
                  /\ f.message.tag = "string"
                  /\ Contains(f.message.val, ToString(r.status))
                  /\ Contains(f.message.val,
                              IF r.readable /\ r.text # "" THEN r.text
                              ELSE "Failed to fetch")

\* one cycle saw a 500 with a body text, another a 404 whose body was unreadable
C10_Witness ==
    /\ \E c \in CycleIds :
         /\ cycles[c].response["earthquake"].status = 500
         /\ cycles[c].fetch["earthquake"].message = Str("API 500: Internal Server Error")
    /\ \E c \in CycleIds :
         /\ cycles[c].response["flood"].status = 404
         /\ cycles[c].fetch["flood"].message = Str("API 404: Failed to fetch")

\* the ranking keys as the specification reads them
SeverityKey(e) == IF e.severity_score.tag = "number" THEN e.severity_score.val ELSE 0
HasTime(e) == Truthy(e.time_utc) /\ DateParse(e.time_utc).tag = "number"
SameTimeKey(a, b) ==
    IF HasTime(a) /\ HasTime(b) THEN DateParse(a.time_utc) = DateParse(b.time_utc)
    ELSE ~HasTime(a) /\ ~HasTime(b)
\* a does not sort after b: higher score first, then later time first, an
\* event without a usable time last among those of its score
RankedBefore(a, b) ==
    \/ SeverityKey(a) > SeverityKey(b)
    \/ /\ SeverityKey(a) = SeverityKey(b)
       /\ \/ ~HasTime(b)
          \/ HasTime(a) /\ DateParse(a.time_utc).val >= DateParse(b.time_utc).val

\* C3 as stated: the published list is sorted by score descending (absent as
\* 0), then by time descending, an absent or unparseable time_utc last among
\* the events of its score.
C3_AsStated ==
    \A i, j \in 1..Len(events) : i < j => RankedBefore(events[i], events[j])

PositionIn(q, e) == CHOOSE k \in 1..Len(q) : q[k] = e

\* C4 as stated: events of equal score and equal time key keep, in the
\* published list, the order they have in earthquakes followed by floods.
C4_AsStated ==
    \A c \in CycleIds :
        cycles[c].outcome = "published" /\ events = cycles[c].merged =>
            LET src == FeedResults(c)
            IN  \A i, j \in 1..Len(src) :
                    (/\ i < j
                     /\ SeverityKey(src[i]) = SeverityKey(src[j])
                     /\ SameTimeKey(src[i], src[j]))
                    => PositionIn(events, src[i]) < PositionIn(events, src[j])

\* the index in q of its n-th element of hazard type h
RECURSIVE NthOfType(_, _, _, _)
NthOfType(q, h, n, from) ==
    IF q[from].event_type = h
    THEN (IF n = 1 THEN from ELSE NthOfType(q, h, n - 1, from + 1))
    ELSE NthOfType(q, h, n, from + 1)

\* C7: with selector all the filtered view is the published list itself; with
\* a hazard selector it is the events of that type, each once, in published
\* order; filtering the view again changes nothing.
C7_FilterKeepsOrder ==
    /\ hazard = "all" => filteredEvents = events
    /\ hazard # "all" =>
         /\ Len(filteredEvents) =
              Cardinality({i \in 1..Len(events) : events[i].event_type = hazard})
         /\ \A k \in 1..Len(filteredEvents) :
              filteredEvents[k] = events[NthOfType(events, hazard, k, 1)]
    /\ FilterByHazard(filteredEvents, hazard) = filteredEvents

\* two floods around an earthquake, and the flood selector on
C7_Witness ==
    /\ hazard = "flood"
    /\ Len(events) >= 3
    /\ events[1].event_type = "flood"
    /\ events[2].event_type = "earthquake"
    /\ events[Len(events)].event_type = "flood"
    /\ Len(filteredEvents) = 2

\* C8 as stated: with the slider's range [minVal, maxVal] in force, every
\* earthquake of the filtered view has a magnitude, and it lies in the range.
C8_AsStated ==
    \A i \in 1..Len(filteredEvents) :
        filteredEvents[i].event_type = "earthquake" =>
            /\ filteredEvents[i].magnitude.tag = "number"
            /\ minVal <= filteredEvents[i].magnitude.val
            /\ filteredEvents[i].magnitude.val <= maxVal

\* C9 as stated: every point the density layer gets has finite lat and lon, and
\* no event with a missing or NaN coordinate contributes one.
C9_AsStated ==
    /\ \A i \in 1..Len(heatPoints) :
         IsFiniteNumber(heatPoints[i].lat) /\ IsFiniteNumber(heatPoints[i].lon)
    /\ \A i \in 1..Len(heatLayer) :
         IsFiniteNumber(heatLayer[i][1]) /\ IsFiniteNumber(heatLayer[i][2])
    /\ Len(heatPoints) <=
         Cardinality({i \in 1..Len(filteredEvents) :
                        /\ filteredEvents[i].lat.tag \notin {"null", "NaN"}
                        /\ filteredEvents[i].lon.tag \notin {"null", "NaN"}})


\* C16: from an initial value with min <= value[0], value[0] + step <= value[1]
\* and value[1] <= max, every sequence of thumb changes keeps
\* min <= minVal, minVal + step <= maxVal and maxVal <= max, and the pair last
\* handed to onChange is the current (minVal, maxVal).
C16_SliderInvariant ==
    /\ SliderMin <= minVal
    /\ minVal + SliderStep <= maxVal
    /\ maxVal <= SliderMax
    /\ reported = <<minVal, maxVal>>

\* a min thumb dragged past the max thumb: it stops one step below it, away from
\* the initial value, and that pair was reported
C16_Witness ==
    /\ minVal + SliderStep = maxVal
    /\ minVal > value[1]
    /\ reported = <<minVal, maxVal>>
    /\ reported # value
SameIdentity(a, b) == a.source = b.source /\ a.source_event_id = b.source_event_id

\* C11: two events of the displayed collection get the same render key exactly
\* when they have the same source and the same source_event_id, in the list
\* view and in the map's marker layer.
C11_AsStated ==
    /\ \A i, j \in 1..Len(listItems) :
          listKeys[i] = listKeys[j] <=> SameIdentity(listItems[i], listItems[j])
    /\ \A i, j \in 1..Len(markers) :
          markerKeys[i] = markerKeys[j] <=> SameIdentity(markers[i], markers[j])
IsLocated(e) == e.lat.tag \in {"number", "Infinity"} /\ e.lon.tag \in {"number", "Infinity"}
GlyphsFor(e) == Cardinality({k \in 1..Len(markers) : markers[k] = e})

\* C12: in events mode the map shows exactly one glyph for every filtered event
\* whose lat and lon are both numbers and not NaN and none for any other event,
\* while the list view shows every filtered event, located or not.
C12_GlyphPerLocatedEvent ==
    /\ view = "events" =>
          /\ \A i \in 1..Len(filteredEvents) :
                GlyphsFor(filteredEvents[i]) = IF IsLocated(filteredEvents[i]) THEN 1 ELSE 0
          /\ \A k \in 1..Len(markers) :
                \E i \in 1..Len(filteredEvents) : filteredEvents[i] = markers[k]
    /\ \A i \in 1..Len(events) :
          (hazard = "all" \/ events[i].event_type = hazard) =>
              \E k \in 1..Len(listItems) : listItems[k] = events[i]

\* events mode with the earthquakes selected out of a larger collection: a
\* located one and one whose latitude is NaN, so fewer glyphs than list items
C12_Witness ==
    /\ view = "events"
    /\ hazard = "earthquake"
    /\ Len(filteredEvents) < Len(events)
    /\ \E i \in 1..Len(filteredEvents) : IsLocated(filteredEvents[i])
    /\ \E i \in 1..Len(filteredEvents) : filteredEvents[i].lat = NaNV
    /\ 0 < Len(markers)
    /\ Len(markers) < Len(listItems)
\* C13: the map is in exactly one of the modes events and heatmap, starting in
\* events; a step that switches the mode leaves the published collection, the
\* hazard selector, the error and the loading flag as they were and starts no
\* fetch; marker glyphs are drawn only in events mode and the heat layer only
\* in heatmap mode.
C13_ModeSwitchOnlyProjects ==
    /\ view = "events"
    /\ [](view \in {"events", "heatmap"})
    /\ [][view' # view =>
             UNCHANGED <<events, hazard, error, loading, cycles, completed,
                         cancelled, timer, now>>]_vars
    /\ [](view # "events" => markers = <<>>)
    /\ [](view # "heatmap" => heatLayer = <<>>)
    /\ [](view = "events" /\ validEvents # <<>> => markers # <<>>)
    /\ [](view = "heatmap" /\ validEvents # <<>> => heatLayer # <<>>)

\* the heatmap drawn over a published collection while a later cycle is still
\* fetching
C13_Witness ==
    /\ view = "heatmap"
    /\ events # <<>>
    /\ heatLayer # <<>>
    /\ markers = <<>>
    /\ \E c \in CycleIds : cycles[c].pc = "awaiting"
InFlight(c) == cycles[c].pc = "awaiting"
LastCompleted == completed[Len(completed)]
ErrorDisplayed == error.tag = "string" /\ error.val # ""

\* C14: whenever no cycle is in flight and the poller is not stopped, an error
\* is displayed exactly when the cycle that completed last failed, also when
\* cycles overlapped and completed out of start order.
C14_AsStated ==
    (/\ ~cancelled
     /\ completed # <<>>
     /\ \A c \in CycleIds : ~InFlight(c))
    => (ErrorDisplayed <=> AnyRejected(LastCompleted))

\* C15: while the poller runs, the loading flag is true exactly when at least
\* one poll cycle is in flight, also when a slow cycle overlaps the next one.
C15_AsStated ==
    timer = "active" => (loading <=> \E c \in CycleIds : InFlight(c))
====
